---- MODULE Spec2Model ----
(***************************************************************************)
(* Model of reposcore/analyzer.py, class RepoAnalyzer:                     *)
(*   - calculate_scores / _finalize_scores (specification Spec)            *)
(*   - collect_PRs_and_issues              (specification SpecCollect)     *)
(*                                                                         *)
(* A Python dict is modelled as a sequence of [key, value] pairs in        *)
(* insertion order.  A score entry is a function from the dict's string    *)
(* keys to numbers.  "rate" holds tenths of a percent (round(rate, 1)      *)
(* times 10), so that all arithmetic is on integers.                       *)
(***************************************************************************)
EXTENDS Integers, Sequences, FiniteSets, TLC

\* ------------------------------------------------------------------ bounds
MaxParticipants == 3
MaxCount == 3
MaxIssueCount == 6
NarrowMax == 1
MaxMinContrib == 3
MaxPages == 2
MaxItems == 2

VARIABLES
    participants,      \* self.participants: <<[user, info]>> in insertion order
    user_info,         \* argument user_info: [present, map]
    min_contributions, \* argument min_contributions
    pc,                \* position inside the running method
    idx,               \* participants consumed by the scoring loop
    loc,               \* the scoring loop's local variables
    scores,            \* local scores: <<[user, data]>>
    total_score_sum,   \* local total_score_sum
    ridx,              \* entries consumed by the rate loop of _finalize_scores
    ranked_scores,     \* the returned map
    mode,              \* "real", "dry", "test" or "multi" (constructor flags)
    page,              \* local page of collect_PRs_and_issues
    items_left,        \* items of the current page not yet iterated
    has_next,          \* the current response's link header holds rel="next"
    data_collected     \* self._data_collected

vars == <<participants, user_info, min_contributions, pc, idx, loc, scores,
          total_score_sum, ridx, ranked_scores, mode, page, items_left,
          has_next, data_collected>>

scoreVars == <<user_info, min_contributions, idx, loc, scores,
               total_score_sum, ridx, ranked_scores>>

collectVars == <<mode, page, items_left, has_next, data_collected>>

\* ----------------------------------------------------------------- helpers
Min(a, b) == IF a <= b THEN a ELSE b

Max(a, b) == IF a >= b THEN a ELSE b

\* dict[key] = value: replaces the value in place, or appends a new key
DictSet(d, key, value) ==
    IF \E i \in 1..Len(d) : d[i].user = key
    THEN [i \in 1..Len(d) |->
            IF d[i].user = key THEN [user |-> key, data |-> value] ELSE d[i]]
    ELSE Append(d, [user |-> key, data |-> value])

DictKeys(d) == {d[i].user : i \in 1..Len(d)}

\* ------------------------------------------------------- program constants
SCORE_WEIGHTS ==
    [feat_bug_pr |-> 3, doc_pr |-> 2, typo_pr |-> 1, feat_bug_is |-> 2, doc_is |-> 1]

EXCLUDED_USERS == {"kyahnu", "kyagrd"}

NewParticipant ==
    [p_enhancement |-> 0, p_bug |-> 0, p_documentation |-> 0, p_typo |-> 0,
     i_enhancement |-> 0, i_bug |-> 0, i_documentation |-> 0]

\* ------------------------------------------------- per-participant scoring
ExtractPrCounts(activities) ==
    [p_f |-> activities.p_enhancement,
     p_b |-> activities.p_bug,
     p_d |-> activities.p_documentation,
     p_t |-> activities.p_typo,
     p_fb |-> activities.p_enhancement + activities.p_bug]

ExtractIssueCounts(activities) ==
    [i_f |-> activities.i_enhancement,
     i_b |-> activities.i_bug,
     i_d |-> activities.i_documentation,
     i_fb |-> activities.i_enhancement + activities.i_bug]

\* mutant: the issue cap taken with max instead of min
CalculateValidCounts_MaxCap(p_fb, p_d, p_t, i_fb, i_d) ==
    LET p_valid == p_fb + Min(p_d + p_t, 3 * Max(p_fb, 1))
    IN  [p_valid |-> p_valid, i_valid |-> Max(i_fb + i_d, 4 * p_valid)]

CalculateValidCounts(p_fb, p_d, p_t, i_fb, i_d) ==
    LET p_valid == p_fb + Min(p_d + p_t, 3 * Max(p_fb, 1))
    IN  [p_valid |-> p_valid, i_valid |-> Min(i_fb + i_d, 4 * p_valid)]

\* mutant: the typo remainder forgets to subtract the feat/bug credit
CalculateAdjustedCounts_Remainder(p_fb, p_d, p_valid, i_fb, i_valid) ==
    LET p_fb_at == Min(p_fb, p_valid)
        p_d_at == Min(p_d, p_valid - p_fb_at)
        i_fb_at == Min(i_fb, i_valid)
    IN  [p_fb_at |-> p_fb_at, p_d_at |-> p_d_at, p_t_at |-> p_valid - p_d_at,
         i_fb_at |-> i_fb_at, i_d_at |-> i_valid - i_fb_at]

CalculateAdjustedCounts(p_fb, p_d, p_valid, i_fb, i_valid) ==
    LET p_fb_at == Min(p_fb, p_valid)
        p_d_at == Min(p_d, p_valid - p_fb_at)
        p_t_at == p_valid - p_fb_at - p_d_at
        i_fb_at == Min(i_fb, i_valid)
        i_d_at == i_valid - i_fb_at
    IN  [p_fb_at |-> p_fb_at, p_d_at |-> p_d_at, p_t_at |-> p_t_at,
         i_fb_at |-> i_fb_at, i_d_at |-> i_d_at]

CalculateTotalScore(p_fb_at, p_d_at, p_t_at, i_fb_at, i_d_at) ==
    SCORE_WEIGHTS.feat_bug_pr * p_fb_at +
    SCORE_WEIGHTS.doc_pr * p_d_at +
    SCORE_WEIGHTS.typo_pr * p_t_at +
    SCORE_WEIGHTS.feat_bug_is * i_fb_at +
    SCORE_WEIGHTS.doc_is * i_d_at

CreateScoreDict(p_fb_at, p_d_at, p_t_at, i_fb_at, i_d_at, total) ==
    ("feat/bug PR" :> SCORE_WEIGHTS.feat_bug_pr * p_fb_at) @@
    ("document PR" :> SCORE_WEIGHTS.doc_pr * p_d_at) @@
    ("typo PR" :> SCORE_WEIGHTS.typo_pr * p_t_at) @@
    ("feat/bug issue" :> SCORE_WEIGHTS.feat_bug_is * i_fb_at) @@
    ("document issue" :> SCORE_WEIGHTS.doc_is * i_d_at) @@
    ("total" :> total)

\* the branch condition of the zero-PR special case
ZeroPrCase(p_fb, p_d, p_t, i_fb, i_d) ==
    p_fb = 0 /\ p_d = 0 /\ p_t = 0 /\ (i_fb + i_d) > 0

\* mutant: the synthetic PR is credited as a typo PR
SpecialCase_SyntheticCredit(p_t, i_fb, i_d) ==
    LET p_valid == 1
        i_valid == Min(i_fb + i_d, 4 * p_valid)
        p_t_at == p_valid
        i_fb_at == Min(i_fb, i_valid)
        i_d_at == i_valid - i_fb_at
        total == SCORE_WEIGHTS.feat_bug_is * i_fb_at +
                 SCORE_WEIGHTS.doc_is * i_d_at +
                 SCORE_WEIGHTS.typo_pr * p_t_at
    IN  [p_valid |-> p_valid, i_valid |-> i_valid,
         p_fb_at |-> 0, p_d_at |-> 0, p_t_at |-> p_t_at,
         i_fb_at |-> i_fb_at, i_d_at |-> i_d_at, total |-> total,
         entry |-> ("feat/bug PR" :> 0) @@ ("document PR" :> 0) @@
                   ("typo PR" :> 0) @@
                   ("feat/bug issue" :> SCORE_WEIGHTS.feat_bug_is * i_fb_at) @@
                   ("document issue" :> SCORE_WEIGHTS.doc_is * i_d_at) @@
                   ("total" :> total)]

\* the body of the zero-PR branch
SpecialCase(p_t, i_fb, i_d) ==
    LET p_valid == 1
        i_valid == Min(i_fb + i_d, 4 * p_valid)
        p_fb_at == 0
        p_d_at == 0
        p_t_at == IF p_t > 0 THEN 1 ELSE 0
        i_fb_at == Min(i_fb, i_valid)
        i_d_at == i_valid - i_fb_at
        total == SCORE_WEIGHTS.feat_bug_is * i_fb_at +
                 SCORE_WEIGHTS.doc_is * i_d_at +
                 SCORE_WEIGHTS.typo_pr * p_t_at
    IN  [p_valid |-> p_valid, i_valid |-> i_valid,
         p_fb_at |-> p_fb_at, p_d_at |-> p_d_at, p_t_at |-> p_t_at,
         i_fb_at |-> i_fb_at, i_d_at |-> i_d_at, total |-> total,
         entry |-> ("feat/bug PR" :> 0) @@ ("document PR" :> 0) @@
                   ("typo PR" :> 0) @@
                   ("feat/bug issue" :> SCORE_WEIGHTS.feat_bug_is * i_fb_at) @@
                   ("document issue" :> SCORE_WEIGHTS.doc_is * i_d_at) @@
                   ("total" :> total)]

\* the branch not taken by the special case
NormalCase(p_fb, p_d, p_t, i_fb, i_d) ==
    LET v == CalculateValidCounts(p_fb, p_d, p_t, i_fb, i_d)
        a == CalculateAdjustedCounts(p_fb, p_d, v.p_valid, i_fb, v.i_valid)
        total == CalculateTotalScore(a.p_fb_at, a.p_d_at, a.p_t_at, a.i_fb_at, a.i_d_at)
    IN  [p_valid |-> v.p_valid, i_valid |-> v.i_valid,
         p_fb_at |-> a.p_fb_at, p_d_at |-> a.p_d_at, p_t_at |-> a.p_t_at,
         i_fb_at |-> a.i_fb_at, i_d_at |-> a.i_d_at, total |-> total,
         entry |-> CreateScoreDict(a.p_fb_at, a.p_d_at, a.p_t_at,
                                   a.i_fb_at, a.i_d_at, total)]

\* what one iteration computes for one participant
ScoreOf(activities) ==
    LET p == ExtractPrCounts(activities)
        i == ExtractIssueCounts(activities)
    IN  IF ZeroPrCase(p.p_fb, p.p_d, p.p_t, i.i_fb, i.i_d)
        THEN SpecialCase(p.p_t, i.i_fb, i.i_d)
        ELSE NormalCase(p.p_fb, p.p_d, p.p_t, i.i_fb, i.i_d)

\* mutant: the special branch leaves the loop without adding to the sum
LoopBody_SpecialNotSummed(sc, sum, participant, activities) ==
    LET p == ExtractPrCounts(activities)
        i == ExtractIssueCounts(activities)
        r == ScoreOf(activities)
    IN  [scores |-> DictSet(sc, participant, r.entry),
         total_score_sum |->
            IF ZeroPrCase(p.p_fb, p.p_d, p.p_t, i.i_fb, i.i_d)
            THEN sum ELSE sum + r.total,
         loc |-> [bound |-> TRUE, participant |-> participant,
                  p_fb |-> p.p_fb, p_d |-> p.p_d, p_t |-> p.p_t,
                  i_fb |-> i.i_fb, i_d |-> i.i_d,
                  p_valid |-> r.p_valid, i_valid |-> r.i_valid,
                  p_fb_at |-> r.p_fb_at, p_d_at |-> r.p_d_at, p_t_at |-> r.p_t_at,
                  i_fb_at |-> r.i_fb_at, i_d_at |-> r.i_d_at, total |-> r.total]]

\* one iteration of the loop of calculate_scores
LoopBody(sc, sum, participant, activities) ==
    LET p == ExtractPrCounts(activities)
        i == ExtractIssueCounts(activities)
        r == ScoreOf(activities)
    IN  [scores |-> DictSet(sc, participant, r.entry),
         total_score_sum |-> sum + r.total,
         loc |-> [bound |-> TRUE, participant |-> participant,
                  p_fb |-> p.p_fb, p_d |-> p.p_d, p_t |-> p.p_t,
                  i_fb |-> i.i_fb, i_d |-> i.i_d,
                  p_valid |-> r.p_valid, i_valid |-> r.i_valid,
                  p_fb_at |-> r.p_fb_at, p_d_at |-> r.p_d_at, p_t_at |-> r.p_t_at,
                  i_fb_at |-> r.i_fb_at, i_d_at |-> r.i_d_at, total |-> r.total]]

\* --------------------------------------------------------- _finalize_scores
\* mutant: the threshold compared with > instead of >=
FilterScores_Strict(sc, m) ==
    IF m > 0 THEN SelectSeq(sc, LAMBDA e : e.data["total"] > m) ELSE sc

\* the min_contributions filter of calculate_scores
FilterScores(sc, m) ==
    IF m > 0 THEN SelectSeq(sc, LAMBDA e : e.data["total"] >= m) ELSE sc

\* round(x, 1) of the exact quotient n / d, in tenths: round-half-to-even.
\* Python rounds the double (total / total_score_sum) * 100; the two agree for
\* every 0 <= total <= total_score_sum < 80, which covers the sums reached here.
RoundHalfEven(n, d) ==
    LET q == n \div d
        r == n % d
    IN  IF 2 * r > d \/ (2 * r = d /\ q % 2 = 1) THEN q + 1 ELSE q

\* mutant: floor division before scaling to a percentage
RateOf_FloorDiv(total, sum) ==
    IF sum > 0 THEN (total \div sum) * 1000 ELSE 0

\* rate of one entry, in tenths of a percent
RateOf(total, sum) ==
    IF sum > 0 THEN RoundHalfEven(1000 * total, sum) ELSE 0

Truthy(ui) == ui.present /\ DOMAIN ui.map # {}

\* user_info.get(k, k)
DisplayName(ui, k) == IF k \in DOMAIN ui.map THEN ui.map[k] ELSE k

RECURSIVE RelabelFrom(_, _, _, _)
RelabelFrom(sc, ui, i, new_scores) ==
    IF i > Len(sc) THEN new_scores
    ELSE RelabelFrom(sc, ui, i + 1,
                     DictSet(new_scores, DisplayName(ui, sc[i].user), sc[i].data))

RECURSIVE RelabelFirstFrom(_, _, _, _)
RelabelFirstFrom(sc, ui, i, new_scores) ==
    IF i > Len(sc) THEN new_scores
    ELSE RelabelFirstFrom(sc, ui, i + 1,
            IF DisplayName(ui, sc[i].user) \in DictKeys(new_scores)
            THEN new_scores
            ELSE DictSet(new_scores, DisplayName(ui, sc[i].user), sc[i].data))

\* mutant: a display name already present is not overwritten
Relabel_FirstWins(sc, ui) ==
    IF Truthy(ui) THEN RelabelFirstFrom(sc, ui, 1, <<>>) ELSE sc

\* the user_info mapping step
Relabel(sc, ui) ==
    IF Truthy(ui) THEN RelabelFrom(sc, ui, 1, <<>>) ELSE sc

\* insertion of e into a list sorted by total, descending, after its equals
RECURSIVE InsertDesc(_, _)
InsertDesc(sorted, e) ==
    IF sorted = <<>> THEN <<e>>
    ELSE IF Head(sorted).data["total"] >= e.data["total"]
         THEN <<Head(sorted)>> \o InsertDesc(Tail(sorted), e)
         ELSE <<e>> \o sorted

RECURSIVE SortedFrom(_, _, _)
SortedFrom(sc, i, acc) ==
    IF i > Len(sc) THEN acc ELSE SortedFrom(sc, i + 1, InsertDesc(acc, sc[i]))

\* sorted(scores.items(), key=total, reverse=True): stable
SortedItems(sc) == SortedFrom(sc, 1, <<>>)

RECURSIVE RankFrom(_, _, _, _, _)
RankFrom(sorted_items, i, last_score, current_rank, ranked) ==
    IF i > Len(sorted_items) THEN ranked
    ELSE LET data == sorted_items[i].data
             rank_counter == i
             changed == (last_score = <<>>) \/ (data["total"] # last_score[1])
             rank == IF changed THEN rank_counter ELSE current_rank
         IN  RankFrom(sorted_items, i + 1, <<data["total"]>>, rank,
                      DictSet(ranked, sorted_items[i].user, data @@ ("rank" :> rank)))

RECURSIVE DenseRankFrom(_, _, _, _, _)
DenseRankFrom(sorted_items, i, last_score, current_rank, ranked) ==
    IF i > Len(sorted_items) THEN ranked
    ELSE LET data == sorted_items[i].data
             changed == (last_score = <<>>) \/ (data["total"] # last_score[1])
             rank == IF changed THEN current_rank + 1 ELSE current_rank
         IN  DenseRankFrom(sorted_items, i + 1, <<data["total"]>>, rank,
                      DictSet(ranked, sorted_items[i].user, data @@ ("rank" :> rank)))

\* mutant: the rank grows by one per distinct total
RankScores_Dense(sorted_items) == DenseRankFrom(sorted_items, 1, <<>>, 0, <<>>)

\* the tie-aware ranking loop; last_score None is the empty tuple
RankScores(sorted_items) == RankFrom(sorted_items, 1, <<>>, 0, <<>>)

\* ------------------------------------------------ inputs of calculate_scores
UserNames == <<"alice", "bob", "carol", "dave", "erin">>

\* records of one participant with every counter varied independently
WideActivities ==
    [p_enhancement : 0..MaxCount, p_bug : 0..1, p_documentation : 0..MaxCount,
     p_typo : 0..MaxCount, i_enhancement : 0..MaxIssueCount, i_bug : 0..1,
     i_documentation : 0..MaxIssueCount]

\* records with feat/bug PRs only, or feat/bug issues only
NarrowActivities ==
    {[NewParticipant EXCEPT !.p_enhancement = k] : k \in 0..NarrowMax} \cup
    {[NewParticipant EXCEPT !.i_enhancement = k] : k \in 0..NarrowMax}

MakeParticipants(infos) ==
    [i \in 1..Len(infos) |-> [user |-> UserNames[i], info |-> infos[i]]]

NarrowParticipants ==
    {MakeParticipants(f) :
        f \in UNION {[1..n -> NarrowActivities] : n \in 0..MaxParticipants}}

WideParticipants == {MakeParticipants(<<a>>) : a \in WideActivities}

NoUserInfo == [present |-> FALSE, map |-> <<>>]

DisplayNames == {"nick", UserNames[3]}

UserInfos ==
    {NoUserInfo} \cup
    {[present |-> TRUE, map |-> f] :
        f \in UNION {[S -> DisplayNames] : S \in SUBSET {UserNames[1], UserNames[2]}}}

UnboundLocals ==
    [bound |-> FALSE, participant |-> "", p_fb |-> 0, p_d |-> 0, p_t |-> 0,
     i_fb |-> 0, i_d |-> 0, p_valid |-> 0, i_valid |-> 0,
     p_fb_at |-> 0, p_d_at |-> 0, p_t_at |-> 0,
     i_fb_at |-> 0, i_d_at |-> 0, total |-> 0]

\* ------------------------------------------------ calculate_scores, stepwise
Init ==
    /\ \/ /\ participants \in NarrowParticipants
          /\ user_info \in UserInfos
          /\ min_contributions \in 0..MaxMinContrib
       \/ /\ participants \in WideParticipants
          /\ user_info = NoUserInfo
          /\ min_contributions = 0
    /\ pc = "loop"
    /\ idx = 0
    /\ loc = UnboundLocals
    /\ scores = <<>>
    /\ total_score_sum = 0
    /\ ridx = 0
    /\ ranked_scores = <<>>
    /\ mode = "multi"
    /\ page = 1
    /\ items_left = 0
    /\ has_next = FALSE
    /\ data_collected = TRUE

\* one iteration of `for participant, activities in self.participants.items()`
ScoreParticipant ==
    /\ pc = "loop"
    /\ idx < Len(participants)
    /\ LET r == LoopBody(scores, total_score_sum,
                         participants[idx + 1].user, participants[idx + 1].info)
       IN  /\ scores' = r.scores
           /\ total_score_sum' = r.total_score_sum
           /\ loc' = r.loc
    /\ idx' = idx + 1
    /\ UNCHANGED <<participants, user_info, min_contributions, pc, ridx,
                   ranked_scores>>
    /\ UNCHANGED collectVars

\* the loop is exhausted: the min_contributions filter, then _finalize_scores
FilterMin ==
    /\ pc = "loop"
    /\ idx = Len(participants)
    /\ scores' = FilterScores(scores, min_contributions)
    /\ pc' = "rate"
    /\ ridx' = 0
    /\ UNCHANGED <<participants, user_info, min_contributions, idx, loc,
                   total_score_sum, ranked_scores>>
    /\ UNCHANGED collectVars

\* one iteration of `for participant in scores` in _finalize_scores
AssignRate ==
    /\ pc = "rate"
    /\ ridx < Len(scores)
    /\ LET e == scores[ridx + 1]
           rate == RateOf(e.data["total"], total_score_sum)
       IN  scores' = [scores EXCEPT ![ridx + 1].data =
                         ("rate" :> rate) @@ e.data]
    /\ ridx' = ridx + 1
    /\ UNCHANGED <<participants, user_info, min_contributions, pc, idx, loc,
                   total_score_sum, ranked_scores>>
    /\ UNCHANGED collectVars

\* `if user_info:` and the relabelling loop
MapUserInfo ==
    /\ pc = "rate"
    /\ ridx = Len(scores)
    /\ scores' = Relabel(scores, user_info)
    /\ pc' = "rank"
    /\ UNCHANGED <<participants, user_info, min_contributions, idx, loc,
                   total_score_sum, ridx, ranked_scores>>
    /\ UNCHANGED collectVars

\* the sort, the ranking loop and the return
SortAndRank ==
    /\ pc = "rank"
    /\ ranked_scores' = RankScores(SortedItems(scores))
    /\ pc' = "done"
    /\ UNCHANGED <<participants, user_info, min_contributions, idx, loc,
                   scores, total_score_sum, ridx>>
    /\ UNCHANGED collectVars

Next ==
    \/ ScoreParticipant
    \/ FilterMin
    \/ AssignRate
    \/ MapUserInfo
    \/ SortAndRank

Spec == Init /\ [][Next]_vars

\* ----------------------------------------------------- collect_PRs_and_issues
\* weekly_activity and previous_create_at are written by the loop and read by
\* nothing modelled here; they are left out.  The `elif item.get('state') ==
\* 'closed'` branch hangs off an `if` whose condition repeats the enclosing
\* one, so it is never taken: merged is the inline merged_at alone.
\* item.get('user', {}).get('login', 'Unknown')
Authors == {"kyahnu", "kyagrd", "alice", "Unknown"}

\* the names of an item's labels: none, or the first one
LabelNames ==
    {<<>>, <<"enhancement">>, <<"bug">>, <<"documentation">>, <<"typo">>,
     <<"question">>}

\* an item of a page; has_number and merged_at matter for pull requests only,
\* state_reason for issues only
PullRequests ==
    [created_at : {TRUE}, author : Authors, pull_request : {TRUE},
     has_number : BOOLEAN, merged_at : BOOLEAN, state_reason : {"None"},
     label_names : LabelNames]

Issues ==
    [created_at : {TRUE}, author : Authors, pull_request : {FALSE},
     has_number : {TRUE}, merged_at : {FALSE},
     state_reason : {"completed", "reopened", "not_planned", "None"},
     label_names : LabelNames]

\* status codes: success, one listed in ERROR_MESSAGES, one not listed
StatusCodes == {200, 404, 418}

ERROR_MESSAGES == {401, 403, 404, 500, 503, 422}

\* _handle_api_error: TRUE when the caller has to give up; both TRUE branches
\* also clear self._data_collected
HandleApiError(status_code) ==
    IF status_code \in ERROR_MESSAGES THEN TRUE
    ELSE IF status_code # 200 THEN TRUE
    ELSE FALSE

DictHas(d, key) == \E i \in 1..Len(d) : d[i].user = key

Bump(d, author, field) ==
    [i \in 1..Len(d) |->
        IF d[i].user = author
        THEN [d[i] EXCEPT !.info[field] = @ + 1]
        ELSE d[i]]

\* the body of `for item in items` after the created_at check
CountItem(d, item) ==
    LET withAuthor ==
            IF DictHas(d, item.author) THEN d
            ELSE Append(d, [user |-> item.author, info |-> NewParticipant])
        first_label == IF item.label_names = <<>> THEN "" ELSE item.label_names[1]
    IN  IF item.pull_request
        THEN IF ~item.has_number THEN withAuthor
             ELSE IF ~item.merged_at THEN withAuthor
             ELSE IF first_label \in {"enhancement", "bug"}
                  THEN Bump(withAuthor, item.author, "p_enhancement")
             ELSE IF first_label = "documentation"
                  THEN Bump(withAuthor, item.author, "p_documentation")
             ELSE IF first_label = "typo"
                  THEN Bump(withAuthor, item.author, "p_typo")
             ELSE withAuthor
        ELSE IF item.state_reason \in {"completed", "reopened", "None"}
             THEN IF first_label \in {"enhancement", "bug"}
                  THEN Bump(withAuthor, item.author, "i_enhancement")
                  ELSE IF first_label = "documentation"
                       THEN Bump(withAuthor, item.author, "i_documentation")
                       ELSE withAuthor
             ELSE withAuthor

\* the dict comprehension that drops EXCLUDED_USERS
ExcludeUsers(d) ==
    IF d = <<>> THEN d
    ELSE SelectSeq(d, LAMBDA e : e.user \notin EXCLUDED_USERS)

InitCollect ==
    /\ mode \in [dry_run : BOOLEAN, repo : {"real", "test", "multi"}]
    /\ participants = <<>>
    /\ pc = "start"
    /\ page = 1
    /\ items_left = 0
    /\ has_next = FALSE
    /\ data_collected = TRUE
    /\ user_info = NoUserInfo
    /\ min_contributions = 0
    /\ idx = 0
    /\ loc = UnboundLocals
    /\ scores = <<>>
    /\ total_score_sum = 0
    /\ ridx = 0
    /\ ranked_scores = <<>>

\* `if self.dry_run: return`
SkipDryRun ==
    /\ pc = "start"
    /\ mode.dry_run
    /\ pc' = "returned"
    /\ UNCHANGED <<participants, mode, page, items_left, has_next, data_collected>>
    /\ UNCHANGED scoreVars

\* `if self._is_test_repo: return`
SkipTestRepo ==
    /\ pc = "start"
    /\ ~mode.dry_run
    /\ mode.repo = "test"
    /\ pc' = "returned"
    /\ UNCHANGED <<participants, mode, page, items_left, has_next, data_collected>>
    /\ UNCHANGED scoreVars

\* `elif self._is_multiple_repos: return`
SkipMultipleRepos ==
    /\ pc = "start"
    /\ ~mode.dry_run
    /\ mode.repo = "multi"
    /\ pc' = "returned"
    /\ UNCHANGED <<participants, mode, page, items_left, has_next, data_collected>>
    /\ UNCHANGED scoreVars

\* page = 1 and entry into `while True`
StartCollection ==
    /\ pc = "start"
    /\ ~mode.dry_run
    /\ mode.repo = "real"
    /\ page' = 1
    /\ pc' = "fetch"
    /\ UNCHANGED <<participants, mode, items_left, has_next, data_collected>>
    /\ UNCHANGED scoreVars

\* the request answers with an error status: _handle_api_error, then return
FetchError ==
    /\ pc = "fetch"
    /\ \E status_code \in StatusCodes :
          /\ HandleApiError(status_code)
          /\ data_collected' = FALSE
    /\ pc' = "returned"
    /\ UNCHANGED <<participants, mode, page, items_left, has_next>>
    /\ UNCHANGED scoreVars

\* the request answers 200 with no items: break
FetchEmpty ==
    /\ pc = "fetch"
    /\ ~HandleApiError(200)
    /\ pc' = "finish"
    /\ UNCHANGED <<participants, mode, page, items_left, has_next, data_collected>>
    /\ UNCHANGED scoreVars

\* the request answers 200 with items, with or without a rel="next" link
FetchItems ==
    /\ pc = "fetch"
    /\ ~HandleApiError(200)
    /\ \E n \in 1..MaxItems : items_left' = n
    /\ \E next \in BOOLEAN : has_next' = (next /\ page < MaxPages)
    /\ pc' = "items"
    /\ UNCHANGED <<participants, mode, page, data_collected>>
    /\ UNCHANGED scoreVars

\* an item without created_at: return from inside the loop
ItemWithoutCreatedAt ==
    /\ pc = "items"
    /\ items_left > 0
    /\ pc' = "returned"
    /\ UNCHANGED <<participants, mode, page, items_left, has_next, data_collected>>
    /\ UNCHANGED scoreVars

\* one iteration of `for item in items`
ProcessItem ==
    /\ pc = "items"
    /\ items_left > 0
    /\ \E item \in PullRequests \cup Issues :
          participants' = CountItem(participants, item)
    /\ items_left' = items_left - 1
    /\ UNCHANGED <<pc, mode, page, has_next, data_collected>>
    /\ UNCHANGED scoreVars

\* the link header check after the items of a page
NextPage ==
    /\ pc = "items"
    /\ items_left = 0
    /\ IF has_next
       THEN page' = page + 1 /\ pc' = "fetch"
       ELSE page' = page /\ pc' = "finish"
    /\ UNCHANGED <<participants, mode, items_left, has_next, data_collected>>
    /\ UNCHANGED scoreVars

\* after the loop: the exclusion of EXCLUDED_USERS, then the implicit return
FinishCollection ==
    /\ pc = "finish"
    /\ participants' = ExcludeUsers(participants)
    /\ pc' = "returned"
    /\ UNCHANGED <<mode, page, items_left, has_next, data_collected>>
    /\ UNCHANGED scoreVars

NextCollect ==
    \/ SkipDryRun
    \/ SkipTestRepo
    \/ SkipMultipleRepos
    \/ StartCollection
    \/ FetchError
    \/ FetchEmpty
    \/ FetchItems
    \/ ItemWithoutCreatedAt
    \/ ProcessItem
    \/ NextPage
    \/ FinishCollection

SpecCollect == InitCollect /\ [][NextCollect]_vars

\* ============================================================== properties
\* vocabulary of the properties below
Special == ZeroPrCase(loc.p_fb, loc.p_d, loc.p_t, loc.i_fb, loc.i_d)

TotalOf(k) == ScoreOf(participants[k].info).total

RECURSIVE SumTotalsUpTo(_)
SumTotalsUpTo(k) == IF k = 0 THEN 0 ELSE TotalOf(k) + SumTotalsUpTo(k - 1)

GrandTotal == SumTotalsUpTo(Len(participants))

Survives(k) == TotalOf(k) >= min_contributions

Shown(k) ==
    IF Truthy(user_info)
    THEN DisplayName(user_info, participants[k].user)
    ELSE participants[k].user

\* k survives the filter and no later survivor is shown under the same name
Kept(k) ==
    /\ Survives(k)
    /\ \A j \in (k + 1)..Len(participants) :
          ~(Survives(j) /\ Shown(j) = Shown(k))

EntriesOf(d, key) == {i \in 1..Len(d) : d[i].user = key}

RECURSIVE SumRates(_, _)
SumRates(d, n) == IF n = 0 THEN 0 ELSE d[n].data["rate"] + SumRates(d, n - 1)

Abs(x) == IF x < 0 THEN -x ELSE x

CategoryKeys ==
    {"feat/bug PR", "document PR", "typo PR", "feat/bug issue", "document issue",
     "total"}

\* ---------------------------------------------------------------------- C1
\* C1 as stated: for every participant scored, on every path, p_valid is at
\* most p_fb + p_d + p_t and i_valid is at most i_fb + i_d and at most
\* 4 * p_valid.
C1_Original ==
    loc.bound =>
        /\ loc.p_valid <= loc.p_fb + loc.p_d + loc.p_t
        /\ loc.i_valid <= loc.i_fb + loc.i_d
        /\ loc.i_valid <= 4 * loc.p_valid

\* C1 amended: i_valid is at most i_fb + i_d and at most 4 * p_valid on every
\* path; p_valid is at most p_fb + p_d + p_t on the normal path, while on the
\* zero-PR path p_valid is the synthetic 1 although p_fb + p_d + p_t is 0.
C1_ValidBounds ==
    loc.bound =>
        /\ loc.i_valid <= loc.i_fb + loc.i_d
        /\ loc.i_valid <= 4 * loc.p_valid
        /\ IF Special
           THEN loc.p_valid = 1 /\ loc.p_fb + loc.p_d + loc.p_t = 0
           ELSE loc.p_valid <= loc.p_fb + loc.p_d + loc.p_t

\* a participant on the normal path for whom both caps bite
C1_Witness ==
    /\ loc.bound
    /\ ~Special
    /\ loc.p_valid < loc.p_fb + loc.p_d + loc.p_t
    /\ loc.i_valid < loc.i_fb + loc.i_d
    /\ loc.i_valid = 4 * loc.p_valid

\* ---------------------------------------------------------------------- C2
\* C2 as stated: for every participant scored, on both paths, the attributed
\* PR counts sum to p_valid and the attributed issue counts sum to i_valid.
C2_Original ==
    loc.bound =>
        /\ loc.p_fb_at + loc.p_d_at + loc.p_t_at = loc.p_valid
        /\ loc.i_fb_at + loc.i_d_at = loc.i_valid

\* C2 amended: the attributed issue counts sum to i_valid on both paths; the
\* attributed PR counts sum to p_valid on the normal path, and to 0 (with
\* p_valid = 1) on the zero-PR path.
C2_AttributedSums ==
    loc.bound =>
        /\ loc.i_fb_at + loc.i_d_at = loc.i_valid
        /\ IF Special
           THEN loc.p_fb_at + loc.p_d_at + loc.p_t_at = 0 /\ loc.p_valid = 1
           ELSE loc.p_fb_at + loc.p_d_at + loc.p_t_at = loc.p_valid

\* a normal-path participant credited in all five categories
C2_Witness ==
    /\ loc.bound
    /\ ~Special
    /\ loc.p_fb_at > 0 /\ loc.p_d_at > 0 /\ loc.p_t_at > 0
    /\ loc.i_fb_at > 0 /\ loc.i_d_at > 0

\* ---------------------------------------------------------------------- C3
\* C3: in the returned map every entry's rank is 1 plus the number of
\* returned entries with a strictly greater total.
C3_CompetitionRank ==
    pc = "done" =>
        \A i \in 1..Len(ranked_scores) :
            ranked_scores[i].data["rank"] =
                1 + Cardinality({j \in 1..Len(ranked_scores) :
                        ranked_scores[j].data["total"] >
                        ranked_scores[i].data["total"]})

\* two entries tied in first place and a third entry ranked 3
C3_Witness ==
    /\ pc = "done"
    /\ Len(ranked_scores) = 3
    /\ ranked_scores[1].data["rank"] = 1
    /\ ranked_scores[2].data["rank"] = 1
    /\ ranked_scores[3].data["rank"] = 3

\* ---------------------------------------------------------------------- C4
\* C4 as stated: whenever the grand total is positive, the returned rates sum
\* to 100.0 within 0.1 per returned participant, for any min_contributions
\* and any user_info.
C4_Original ==
    (pc = "done" /\ total_score_sum > 0) =>
        Abs(SumRates(ranked_scores, Len(ranked_scores)) - 1000)
            <= Len(ranked_scores)

\* C4 amended: whenever the grand total is positive and every participant
\* with a positive total is in the returned map (none dropped by the
\* min_contributions filter, none overwritten by a display-name collision),
\* the returned rates sum to 100.0 within 0.1 per returned participant.
C4_RateSum ==
    (/\ pc = "done"
     /\ total_score_sum > 0
     /\ \A k \in 1..Len(participants) : TotalOf(k) > 0 => Kept(k)) =>
        Abs(SumRates(ranked_scores, Len(ranked_scores)) - 1000)
            <= Len(ranked_scores)

\* three participants returned whose rounded rates do not sum to 100.0 exactly
C4_Witness ==
    /\ pc = "done"
    /\ total_score_sum > 0
    /\ \A k \in 1..Len(participants) : TotalOf(k) > 0 => Kept(k)
    /\ Len(ranked_scores) = 3
    /\ SumRates(ranked_scores, Len(ranked_scores)) # 1000

\* ---------------------------------------------------------------------- C5
\* C5: with user_info absent, a participant is in the returned map if and
\* only if its total is at least min_contributions.
C5_FilterIff ==
    (pc = "done" /\ ~user_info.present) =>
        /\ DictKeys(ranked_scores) =
              {participants[k].user : k \in {j \in 1..Len(participants) : Survives(j)}}
        /\ \A i \in 1..Len(ranked_scores) :
              /\ ranked_scores[i].data["total"] >= min_contributions
              /\ Cardinality(EntriesOf(ranked_scores, ranked_scores[i].user)) = 1

\* one participant exactly at the threshold is returned, one below it with a
\* positive total is dropped
C5_Witness ==
    /\ pc = "done"
    /\ ~user_info.present
    /\ min_contributions > 0
    /\ \E k \in 1..Len(participants) :
          /\ TotalOf(k) = min_contributions
          /\ participants[k].user \in DictKeys(ranked_scores)
    /\ \E k \in 1..Len(participants) :
          /\ TotalOf(k) > 0
          /\ TotalOf(k) < min_contributions
          /\ participants[k].user \notin DictKeys(ranked_scores)

\* ---------------------------------------------------------------------- C6
\* C6: a participant with no PR of any kind and at least one issue gets an
\* entry with the three PR fields 0, i_fb_at = min(i_fb, min(i_fb + i_d, 4)),
\* i_d_at = min(i_fb + i_d, 4) - i_fb_at and total 2 * i_fb_at + i_d_at.
C6_ZeroPrEntry ==
    (pc = "loop" /\ loc.bound /\ loc.p_fb = 0 /\ loc.p_d = 0 /\ loc.p_t = 0
        /\ loc.i_fb + loc.i_d >= 1) =>
        LET data == scores[idx].data
            fb == Min(loc.i_fb, Min(loc.i_fb + loc.i_d, 4))
            d == Min(loc.i_fb + loc.i_d, 4) - fb
        IN  /\ scores[idx].user = loc.participant
            /\ data["feat/bug PR"] = 0
            /\ data["document PR"] = 0
            /\ data["typo PR"] = 0
            /\ loc.i_fb_at = fb
            /\ loc.i_d_at = d
            /\ data["feat/bug issue"] = 2 * fb
            /\ data["document issue"] = d
            /\ loc.total = 2 * fb + d
            /\ data["total"] = 2 * fb + d

\* a zero-PR participant with more than four issues of both kinds
C6_Witness ==
    /\ pc = "loop"
    /\ loc.bound
    /\ loc.p_fb = 0 /\ loc.p_d = 0 /\ loc.p_t = 0
    /\ loc.i_fb + loc.i_d > 4
    /\ loc.i_fb_at > 0
    /\ loc.i_d_at > 0

\* ---------------------------------------------------------------------- C7
\* C7: with user_info given, the returned map holds exactly one entry per
\* display name of the participants that survive the filter, and that entry
\* carries the category scores, total and rate of the last such participant
\* in insertion order; a username missing from user_info is its own key.
C7_LastWins ==
    (pc = "done" /\ Truthy(user_info)) =>
        /\ DictKeys(ranked_scores) =
              {Shown(k) : k \in {j \in 1..Len(participants) : Survives(j)}}
        /\ \A k \in 1..Len(participants) :
              Kept(k) =>
                /\ Cardinality(EntriesOf(ranked_scores, Shown(k))) = 1
                /\ \A i \in EntriesOf(ranked_scores, Shown(k)) :
                      /\ \A c \in CategoryKeys :
                            ranked_scores[i].data[c] =
                                ScoreOf(participants[k].info).entry[c]
                      /\ ranked_scores[i].data["rate"] =
                            RateOf(TotalOf(k), GrandTotal)

\* alice and bob, with different totals, are both shown as "nick"; carol
\* keeps her own name
C7_Witness ==
    /\ pc = "done"
    /\ Truthy(user_info)
    /\ Len(participants) = 3
    /\ \A k \in 1..3 : Survives(k)
    /\ Shown(1) = "nick" /\ Shown(2) = "nick" /\ Shown(3) = UserNames[3]
    /\ TotalOf(1) # TotalOf(2)
    /\ Len(ranked_scores) = 2

\* ---------------------------------------------------------------------- C8
\* C8: no entry carries a rate before the total of every input participant
\* has been added to the grand total; every rate is taken against the sum of
\* the totals of all input participants, those dropped by the filter
\* included, and is 0 when that sum is 0.
RateIsOver(data, sum) ==
    IF sum > 0
    THEN 2 * Abs(data["rate"] * sum - 1000 * data["total"]) <= sum
    ELSE data["rate"] = 0

RatedEntries(d) == {i \in 1..Len(d) : "rate" \in DOMAIN d[i].data}

C8_RateAfterSum ==
    (RatedEntries(scores) # {} \/ RatedEntries(ranked_scores) # {}) =>
        /\ idx = Len(participants)
        /\ total_score_sum = GrandTotal
        /\ \A i \in RatedEntries(scores) :
              RateIsOver(scores[i].data, total_score_sum)
        /\ \A i \in RatedEntries(ranked_scores) :
              RateIsOver(ranked_scores[i].data, total_score_sum)

\* a rate has been assigned while a participant with a positive total was
\* dropped by the filter
C8_Witness ==
    /\ pc = "rate"
    /\ ridx >= 1
    /\ scores[1].data["rate"] > 0
    /\ scores[1].data["rate"] < 1000
    /\ \E k \in 1..Len(participants) : TotalOf(k) > 0 /\ ~Survives(k)

\* ---------------------------------------------------------------------- C9
\* C9: every attributed count lies between 0 and the raw count of its own
\* category.
C9_AttributedWithinRaw ==
    loc.bound =>
        /\ 0 <= loc.p_fb_at /\ loc.p_fb_at <= loc.p_fb
        /\ 0 <= loc.p_d_at /\ loc.p_d_at <= loc.p_d
        /\ 0 <= loc.p_t_at /\ loc.p_t_at <= loc.p_t
        /\ 0 <= loc.i_fb_at /\ loc.i_fb_at <= loc.i_fb
        /\ 0 <= loc.i_d_at /\ loc.i_d_at <= loc.i_d

\* both remainder categories receive part, not all, of their raw count
C9_Witness ==
    /\ loc.bound
    /\ 0 < loc.p_t_at /\ loc.p_t_at < loc.p_t
    /\ 0 < loc.i_d_at /\ loc.i_d_at < loc.i_d

\* --------------------------------------------------------------------- C10
\* C10: once collect_PRs_and_issues has returned on a real repository, no
\* username of EXCLUDED_USERS is a key of participants, whichever way the
\* collection ended.
C10_NoExcludedUser ==
    (pc = "returned" /\ ~mode.dry_run /\ mode.repo = "real") =>
        DictKeys(participants) \cap EXCLUDED_USERS = {}

====
